---- MODULE Spec2Model ----
(***************************************************************************)
(* Model of the partner vehicle collection endpoint                        *)
(*   src/app/api/partners/[partnerId]/vehicles/route.ts  (GET, POST)       *)
(*                                                                         *)
(* Each request is a handler instance running in a slot.  A handler is     *)
(* suspended at every `await`; one action models the code from one await   *)
(* to the next, so concurrent requests interleave exactly where the        *)
(* JavaScript event loop lets them.  The database (partners, vehicles) is  *)
(* the only state shared between requests.                                 *)
(*                                                                         *)
(* The client components are modelled next to it, one variable each:       *)
(*   src/app/cars/components/simple-car-form.tsx  (SimpleCarForm,          *)
(*                                                 VehicleList)            *)
(*   src/unnamed/part_000                         (PlateCarDialog)         *)
(* A component's event handler runs to its next await in one action; the   *)
(* continuation after the await is another action.                         *)
(***************************************************************************)
EXTENDS Integers, Sequences, FiniteSets, TLC

VARIABLES
    vehicles,   \* rows of the Vehicle table, in insertion order
    req,        \* req[s]: the handler instance running in slot s
    started,    \* number of requests received so far
    scf,        \* state of a mounted SimpleCarForm
    pcd,        \* state of a PlateCarDialog
    vl          \* state of a mounted VehicleList

\* The endpoint's state and the client components' state.
server == <<vehicles, req, started>>
client == <<scf, pcd, vl>>

vars == <<vehicles, req, started, scf, pcd, vl>>

(* ------------------------------ bounds -------------------------------- *)

\* Requests received in one behaviour.
MaxRequests == 3

\* Handler instances that can be in flight at the same time.
Slots == {"r1", "r2"}

(* ----------------------------- JSON values ---------------------------- *)

\* A JSON value of the request body, or a column value of a stored row.
\* t: "absent" (property not in the body), "str", "num", "bool", "null".
Absent == [t |-> "absent", s |-> "", n |-> 0]
Null == [t |-> "null", s |-> "", n |-> 0]
Str(x) == [t |-> "str", s |-> x, n |-> 0]
Num(k) == [t |-> "num", s |-> "", n |-> k]
Bool(b) == [t |-> "bool", s |-> "", n |-> IF b THEN 1 ELSE 0]

\* JavaScript truthiness, as used by `!x` and `x || d`.
Truthy(v) ==
    CASE v.t = "str" -> v.s # ""
      [] v.t = "num" -> v.n # 0
      [] v.t = "bool" -> v.n = 1
      [] OTHER -> FALSE

\* x || d
OrElse(v, d) == IF Truthy(v) THEN v ELSE d

\* The characters of the string literals that reach parseInt.
Chars(x) ==
    CASE x = "2022" -> <<"2", "0", "2", "2">>
      [] x = "4" -> <<"4">>
      [] x = "" -> <<>>
      [] OTHER -> <<"?">>

DigitValue(c) ==
    CASE c = "0" -> 0 [] c = "1" -> 1 [] c = "2" -> 2 [] c = "3" -> 3
      [] c = "4" -> 4 [] c = "5" -> 5 [] c = "6" -> 6 [] c = "7" -> 7
      [] c = "8" -> 8 [] c = "9" -> 9 [] OTHER -> -1

DigitChar(d) ==
    CASE d = 0 -> "0" [] d = 1 -> "1" [] d = 2 -> "2" [] d = 3 -> "3"
      [] d = 4 -> "4" [] d = 5 -> "5" [] d = 6 -> "6" [] d = 7 -> "7"
      [] d = 8 -> "8" [] OTHER -> "9"

\* String(k) for an integer k: what parseInt sees when given a number.
RECURSIVE NatChars(_)
NatChars(k) ==
    IF k < 10 THEN <<DigitChar(k)>>
    ELSE NatChars(k \div 10) \o <<DigitChar(k % 10)>>

NumChars(k) == IF k < 0 THEN <<"-">> \o NatChars(-k) ELSE NatChars(k)

\* The longest prefix of cs made of decimal digits.
RECURSIVE DigitPrefix(_)
DigitPrefix(cs) ==
    IF cs = <<>> \/ DigitValue(Head(cs)) < 0
    THEN <<>>
    ELSE <<Head(cs)>> \o DigitPrefix(Tail(cs))

RECURSIVE DecimalOf(_, _)
DecimalOf(cs, acc) ==
    IF cs = <<>> THEN acc
    ELSE DecimalOf(Tail(cs), 10 * acc + DigitValue(Head(cs)))

RECURSIVE SkipSpaces(_)
SkipSpaces(cs) ==
    IF cs # <<>> /\ Head(cs) = " " THEN SkipSpaces(Tail(cs)) ELSE cs

\* NaN: the JavaScript number that parseInt returns when it reads no digit.
NaN == [t |-> "nan", s |-> "", n |-> 0]

\* parseInt on a string: leading blanks are skipped, a sign is read, then
\* the leading decimal digits; NaN when there is no digit.
ParseIntChars(cs) ==
    LET body == SkipSpaces(cs)
        neg == body # <<>> /\ Head(body) = "-"
        signed == body # <<>> /\ Head(body) \in {"-", "+"}
        ds == DigitPrefix(IF signed THEN Tail(body) ELSE body)
    IN IF ds = <<>> THEN NaN
       ELSE Num(IF neg THEN -DecimalOf(ds, 0) ELSE DecimalOf(ds, 0))

\* parseInt(v): the argument is first converted to a string.
parseInt(v) ==
    CASE v.t = "num" -> ParseIntChars(NumChars(v.n))
      [] v.t = "str" -> ParseIntChars(Chars(v.s))
      [] OTHER -> NaN   \* "undefined", "null", "true", "false"

(* --------------------------- request bodies --------------------------- *)

\* What `await req.json()` can produce: a thrown SyntaxError ("invalid"),
\* the JSON value null, or an object with some of the properties the
\* handler reads.
Fields(br, mo, ye, lp, ca, vt, st, fp) ==
    [kind |-> "object", brand |-> br, model |-> mo, year |-> ye,
     licensePlate |-> lp, capacity |-> ca, vehicleType |-> vt,
     status |-> st, isForeignPlate |-> fp]

EmptyObject ==
    Fields(Absent, Absent, Absent, Absent, Absent, Absent, Absent, Absent)

InvalidBody == [EmptyObject EXCEPT !.kind = "invalid"]
NullBody == [EmptyObject EXCEPT !.kind = "null"]

PlateA == Str("AB-123-CD")
PlateB == Str("EF-456-GH")

\* The example body of the specification.
ExampleBody ==
    Fields(Str("Mercedes"), Str("S-Class"), Str("2022"), PlateA, Str("4"),
           Absent, Absent, Absent)

\* Every way of leaving out required properties.
OmissionBodies ==
    { [ExampleBody EXCEPT !.brand = br, !.model = mo, !.year = ye,
                          !.licensePlate = lp] :
        br \in {Absent, Str("Mercedes")}, mo \in {Absent, Str("S-Class")},
        ye \in {Absent, Str("2022")}, lp \in {Absent, PlateA} }

\* Required properties that are present and falsy.
FalsyBodies ==
    { [ExampleBody EXCEPT !.brand = Str("")],
      [ExampleBody EXCEPT !.year = Num(0)],
      [ExampleBody EXCEPT !.licensePlate = Str("")] }

\* The example body for a second plate, year as a number, no capacity.
SecondBody ==
    [ExampleBody EXCEPT !.licensePlate = PlateB, !.year = Num(2022),
                        !.capacity = Absent]

\* Complete bodies: numbers and numeric strings, optional properties
\* given or omitted.
CompleteBodies ==
    { [ExampleBody EXCEPT !.year = ye, !.capacity = ca, !.vehicleType = vt,
                          !.status = st, !.isForeignPlate = fp] :
        ye \in {Num(2022), Str("2022")},
        ca \in {Absent, Num(7), Str("4")},
        vt \in {Absent, Str("SUV")}, st \in {Absent, Str("IN_USE")},
        fp \in {Absent, Bool(TRUE), Bool(FALSE)} }
      \cup {SecondBody}

\* The bodies of the requests that are served one at a time.
Bodies == {InvalidBody, NullBody} \cup OmissionBodies \cup FalsyBodies
              \cup CompleteBodies

\* The bodies of the requests that are served concurrently: unparseable,
\* null, incomplete, and complete ones for either plate.
RaceBodies ==
    {InvalidBody, NullBody, ExampleBody,
     [ExampleBody EXCEPT !.brand = Absent],
     SecondBody}

(* ------------------------------ database ------------------------------ *)

\* The Partner table.  The endpoint never writes it.
Partners == {"p1", "p2"}

\* Path parameters a request can carry: the stored partners and one id
\* that matches no partner.
PartnerIds == Partners \cup {"ghost"}

\* Mutant: the partner lookup finds a partner for every id.
PartnerFindUnique_Any(id) == TRUE

\* db.partner.findUnique({ where: { id } })
PartnerFindUnique(id) == id \in Partners

\* Mutant: the plate lookup never finds a row.
VehicleFindUnique_Never(rows, plate) == FALSE

\* db.vehicle.findUnique({ where: { licensePlate } }): is there such a row
VehicleFindUnique(rows, plate) ==
    \E i \in 1..Len(rows) : rows[i].licensePlate = plate

\* Mutant: the table has no unique index on the plate.
UniqueViolation_NoIndex(rows, plate) == FALSE

\* The unique index on Vehicle.licensePlate: an insert of a plate that a
\* row already carries is rejected.
UniqueViolation(rows, plate) ==
    \E i \in 1..Len(rows) : rows[i].licensePlate = plate

\* createdAt of a new row: the database clock, which never runs backwards
\* and may not have advanced since the previous insert.
CreatedAtNow(rows) ==
    IF rows = <<>> THEN {1}
    ELSE LET last == rows[Len(rows)].createdAt IN {last, last + 1}

\* Mutant: orderBy createdAt ascending.
OrderByCreatedAt_Asc(a, b) == a.createdAt <= b.createdAt

\* orderBy: { createdAt: "desc" }: a may come before b
OrderByCreatedAtDesc(a, b) == a.createdAt >= b.createdAt

\* db.vehicle.findMany({ where: { partnerId }, orderBy }): the results the
\* database may return (rows with equal createdAt come in any order).
VehicleFindMany(rows, partnerId) ==
    LET I == {i \in 1..Len(rows) : rows[i].partnerId = partnerId}
        n == Cardinality(I)
        P == {f \in [1..n -> I] :
                /\ \A j, k \in 1..n : j # k => f[j] # f[k]
                /\ \A j, k \in 1..n :
                     j < k => OrderByCreatedAtDesc(rows[f[j]], rows[f[k]])}
    IN {[j \in 1..n |-> rows[f[j]]] : f \in P}

\* The license plates of the stored vehicles.
StoredPlates(rows) == {rows[i].licensePlate : i \in 1..Len(rows)}

(* ------------------------------ handlers ------------------------------ *)

\* Fields of a handler instance: kind, pc (the await it is suspended at),
\* partnerId (params.partnerId), userId, body (data), resp (the response
\* returned) and, for stating properties, reads and writes (persistence
\* calls that resolved), exc (the exception caught), nresp (responses
\* returned) and platesAtReceive (plates stored when the request arrived).

NoResponse == [status |-> 0, error |-> "", missing |-> <<>>, data |-> <<>>]

Idle ==
    [kind |-> "none", pc |-> "idle", partnerId |-> "", userId |-> "",
     body |-> EmptyObject, reads |-> 0, writes |-> 0, exc |-> "",
     resp |-> NoResponse, nresp |-> 0, platesAtReceive |-> {}]

\* return NextResponse.json(...)
Respond(r, status, error, missing, data) ==
    [r EXCEPT !.pc = "done", !.nresp = @ + 1,
              !.resp = [status |-> status, error |-> error,
                        missing |-> missing, data |-> data]]

\* GET's catch block
CatchGET(r, e) ==
    Respond([r EXCEPT !.exc = e], 500, "Failed to fetch vehicles", <<>>, <<>>)

\* Mutant: the exception is not caught, so no response is returned.
CatchPOST_Uncaught(r, e) == [r EXCEPT !.exc = e, !.pc = "done"]

\* POST's catch block
CatchPOST(r, e) ==
    Respond([r EXCEPT !.exc = e], 500, "Failed to add vehicle", <<>>, <<>>)

Catch(r, e) == IF r.kind = "GET" THEN CatchGET(r, e) ELSE CatchPOST(r, e)

\* Mutant: the 401 is not returned and the handler goes on.
Unauthorized_FallThrough(r) ==
    [r EXCEPT !.pc = IF r.kind = "POST" THEN "json" ELSE "partner"]

Unauthorized(r) == Respond(r, 401, "Unauthorized", <<>>, <<>>)

PartnerNotFound(r) == Respond(r, 404, "Partner not found", <<>>, <<>>)

\* Mutant: a missing year is not reported.
MissingFields_NoYear(b) ==
    (IF ~Truthy(b.brand) THEN <<"brand">> ELSE <<>>)
    \o (IF ~Truthy(b.model) THEN <<"model">> ELSE <<>>)
    \o (IF ~Truthy(b.licensePlate) THEN <<"licensePlate">> ELSE <<>>)

\* missingFields, in the order the handler pushes them
MissingFields(b) ==
    (IF ~Truthy(b.brand) THEN <<"brand">> ELSE <<>>)
    \o (IF ~Truthy(b.model) THEN <<"model">> ELSE <<>>)
    \o (IF ~Truthy(b.year) THEN <<"year">> ELSE <<>>)
    \o (IF ~Truthy(b.licensePlate) THEN <<"licensePlate">> ELSE <<>>)

\* !data.brand || !data.model || !data.year || !data.licensePlate
HasMissing(b) ==
    ~Truthy(b.brand) \/ ~Truthy(b.model) \/ ~Truthy(b.year)
        \/ ~Truthy(b.licensePlate)

\* Mutant: the body's status is ignored.
CreateData_StatusIgnored(b, partnerId) ==
    [make |-> b.brand, model |-> b.model, year |-> parseInt(b.year),
     licensePlate |-> b.licensePlate,
     isForeignPlate |-> OrElse(b.isForeignPlate, Bool(FALSE)),
     capacity |-> parseInt(b.capacity),
     vehicleType |-> OrElse(b.vehicleType, Str("SEDAN")),
     status |-> Str("AVAILABLE"),
     partnerId |-> partnerId]

\* The `data` argument of db.vehicle.create.
CreateData(b, partnerId) ==
    [make |-> b.brand, model |-> b.model, year |-> parseInt(b.year),
     licensePlate |-> b.licensePlate,
     isForeignPlate |-> OrElse(b.isForeignPlate, Bool(FALSE)),
     capacity |-> parseInt(b.capacity),
     vehicleType |-> OrElse(b.vehicleType, Str("SEDAN")),
     status |-> OrElse(b.status, Str("AVAILABLE")),
     partnerId |-> partnerId]

\* The row the database stores for `data`: it adds the id and createdAt.
NewRow(data, id, at) ==
    [id |-> id, make |-> data.make, model |-> data.model, year |-> data.year,
     licensePlate |-> data.licensePlate,
     isForeignPlate |-> data.isForeignPlate, capacity |-> data.capacity,
     vehicleType |-> data.vehicleType, status |-> data.status,
     partnerId |-> data.partnerId, createdAt |-> at]

(* ---------------------- client components: state ---------------------- *)

\* null: no selected vehicle, no notification.
None == "none"

\* make, model and year as long as no lookup has written them.
Unfilled ==
    [written |-> FALSE, plate |-> <<>>, current |-> <<>>, toggle |-> FALSE]

\* SimpleCarForm after mount: useState(false) twice, the form's default
\* values (no defaultValues prop: blank plate, isFrenchPlate true), no
\* timer, no lookup in flight.
\* pending counts the onSubmit promises awaited; submitted, rejected and
\* errorToasts count events, for stating properties.  licensePlate is the
\* text of the input, a sequence of characters; timers holds the pending
\* setTimeout callbacks of the debounce effect; inflight the plates of the
\* lookups awaiting their response, oldest first; quiet the milliseconds
\* since licensePlate or isFrenchPlate last changed, capped at the delay;
\* filled what the last successful lookup wrote to make / model / year.
ScfInit ==
    [isLoading |-> FALSE, pending |-> 0, submitted |-> 0, rejected |-> 0,
     errorToasts |-> 0,
     licensePlate |-> <<>>, isFrenchPlate |-> TRUE,
     isCheckingPlate |-> FALSE, timers |-> {}, inflight |-> <<>>,
     lookups |-> 0, plateToasts |-> 0, quiet |-> 0, filled |-> Unfilled]

\* PlateCarDialog after mount: useState(false); open is the parent's prop.
PcdInit ==
    [open |-> FALSE, isSubmitting |-> FALSE, pending |-> 0, submitted |-> 0,
     resolved |-> 0, rejected |-> 0, errorToasts |-> 0, successToasts |-> 0]

\* VehicleList after mount for partner p1: the useState initial values, and
\* the effect has called fetchPartnerVehicles once.  vehicles names the
\* fetch whose outcome is shown (by; 0 for the initial empty list) and
\* whether it holds rows; calls is the set of requests awaiting the network,
\* issued their number so far; toast is the notification shown by the last
\* step; lastConfirmed the vehicle of the latest confirmDeleteVehicle;
\* lastFetch the latest call of fetchPartnerVehicles for each partner.
VlInit ==
    [partnerId |-> "p1",
     vehicles |-> [by |-> 0, rows |-> FALSE],
     isLoading |-> TRUE,
     showVehicleDialog |-> FALSE,
     isSubmitting |-> FALSE,
     currentVehicleId |-> None,
     isEditingVehicle |-> FALSE,
     showDeleteVehicleDialog |-> FALSE,
     vehicleToDelete |-> None,
     defaultValues |-> None,
     calls |-> {[id |-> 1, kind |-> "list", method |-> "GET",
                 partnerId |-> "p1", vehicleId |-> None, data |-> None,
                 phase |-> "headers"]},
     issued |-> 1,
     toast |-> None,
     lastConfirmed |-> None,
     lastFetch |-> [p \in {"p1", "p2"} |-> IF p = "p1" THEN 1 ELSE 0]]

Init ==
    /\ vehicles = <<>>
    /\ req = [s \in Slots |-> Idle]
    /\ started = 0
    /\ scf = ScfInit
    /\ pcd = PcdInit
    /\ vl = VlInit

\* A request arrives and its handler starts, up to the first await.
Receive(s) ==
    /\ req[s].pc = "idle"
    /\ started < MaxRequests
    /\ \E k \in {"GET", "POST"}, p \in PartnerIds :
         req' = [req EXCEPT ![s] =
                   [Idle EXCEPT !.kind = k, !.pc = "auth", !.partnerId = p,
                                !.platesAtReceive = StoredPlates(vehicles)]]
    /\ started' = started + 1
    /\ UNCHANGED vehicles
    /\ UNCHANGED client

\* const { userId } = await auth(); if (!userId) return 401
\* POST then calls req.json(); GET calls db.partner.findUnique.
Auth(s) ==
    /\ req[s].pc = "auth"
    /\ \/ req' = [req EXCEPT ![s] = Catch(@, "auth")]
       \/ req' = [req EXCEPT ![s] = Unauthorized(@)]
       \/ req' = [req EXCEPT ![s] =
                    [@ EXCEPT !.userId = "user_1",
                              !.pc = IF req[s].kind = "POST" THEN "json"
                                     ELSE "partner"]]
    /\ UNCHANGED <<vehicles, started>>
    /\ UNCHANGED client

\* const data = await req.json(); then db.partner.findUnique is called
POST_Json(s, B) ==
    /\ req[s].kind = "POST"
    /\ req[s].pc = "json"
    /\ \E b \in B :
         req' = [req EXCEPT ![s] =
                   IF b.kind = "invalid" THEN CatchPOST(@, "json")
                   ELSE [@ EXCEPT !.body = b, !.pc = "partner"]]
    /\ UNCHANGED <<vehicles, started>>
    /\ UNCHANGED client

\* POST: the partner lookup resolves; 404, the validation of the required
\* fields, and the call of db.vehicle.findUnique.
POST_Partner(s) ==
    /\ req[s].kind = "POST"
    /\ req[s].pc = "partner"
    /\ \/ req' = [req EXCEPT ![s] = CatchPOST(@, "db")]
       \/ LET r == [req[s] EXCEPT !.reads = @ + 1]
          IN req' = [req EXCEPT ![s] =
               IF ~PartnerFindUnique(r.partnerId) THEN PartnerNotFound(r)
               ELSE IF r.body.kind = "null" THEN CatchPOST(r, "TypeError")
               ELSE IF HasMissing(r.body)
                    THEN Respond(r, 400, "Missing required fields",
                                 MissingFields(r.body), <<>>)
               ELSE [r EXCEPT !.pc = "plate"]]
    /\ UNCHANGED <<vehicles, started>>
    /\ UNCHANGED client

\* POST: the plate lookup resolves; 400 on a plate in use, else parseInt
\* and the call of db.vehicle.create.
POST_Plate(s) ==
    /\ req[s].kind = "POST"
    /\ req[s].pc = "plate"
    /\ \/ req' = [req EXCEPT ![s] = CatchPOST(@, "db")]
       \/ LET r == [req[s] EXCEPT !.reads = @ + 1]
          IN req' = [req EXCEPT ![s] =
               IF VehicleFindUnique(vehicles, r.body.licensePlate)
               THEN Respond(r, 400,
                      "A vehicle with this license plate already exists",
                      <<>>, <<>>)
               ELSE [r EXCEPT !.pc = "create"]]
    /\ UNCHANGED <<vehicles, started>>
    /\ UNCHANGED client

\* Column values the database cannot store as an Int.
NotAnInt(data) == data.year.t # "num" \/ data.capacity.t # "num"

\* What the database stores for a column value.
Stored(v) == IF v.t = "nan" THEN Null ELSE v

\* POST: db.vehicle.create resolves or rejects; the response.
POST_Create(s) ==
    /\ req[s].kind = "POST"
    /\ req[s].pc = "create"
    /\ LET r == req[s]
           data == CreateData(r.body, r.partnerId)
       IN \/ /\ req' = [req EXCEPT ![s] = CatchPOST(r, "db")]
             /\ UNCHANGED vehicles
          \/ /\ UniqueViolation(vehicles, data.licensePlate)
             /\ req' = [req EXCEPT ![s] = CatchPOST(r, "P2002")]
             /\ UNCHANGED vehicles
          \/ /\ ~UniqueViolation(vehicles, data.licensePlate)
             /\ NotAnInt(data)
             /\ req' = [req EXCEPT ![s] = CatchPOST(r, "NaN")]
             /\ UNCHANGED vehicles
          \/ /\ ~UniqueViolation(vehicles, data.licensePlate)
             /\ \E at \in CreatedAtNow(vehicles) :
                  LET row == NewRow([data EXCEPT !.year = Stored(@),
                                                 !.capacity = Stored(@)],
                                    Len(vehicles) + 1, at)
                  IN /\ vehicles' = Append(vehicles, row)
                     /\ req' = [req EXCEPT ![s] =
                          Respond([r EXCEPT !.writes = @ + 1], 200, "",
                                  <<>>, <<row>>)]
    /\ UNCHANGED started
    /\ UNCHANGED client

\* GET: the partner lookup resolves; 404 or the call of findMany.
GET_Partner(s) ==
    /\ req[s].kind = "GET"
    /\ req[s].pc = "partner"
    /\ \/ req' = [req EXCEPT ![s] = CatchGET(@, "db")]
       \/ LET r == [req[s] EXCEPT !.reads = @ + 1]
          IN req' = [req EXCEPT ![s] =
               IF ~PartnerFindUnique(r.partnerId) THEN PartnerNotFound(r)
               ELSE [r EXCEPT !.pc = "findMany"]]
    /\ UNCHANGED <<vehicles, started>>
    /\ UNCHANGED client

\* GET: findMany resolves; the response.
GET_FindMany(s) ==
    /\ req[s].kind = "GET"
    /\ req[s].pc = "findMany"
    /\ \/ req' = [req EXCEPT ![s] = CatchGET(@, "db")]
       \/ \E rows \in VehicleFindMany(vehicles, req[s].partnerId) :
            req' = [req EXCEPT ![s] =
                      Respond([@ EXCEPT !.reads = @ + 1], 200, "", <<>>, rows)]
    /\ UNCHANGED <<vehicles, started>>
    /\ UNCHANGED client

\* The response has been sent; the handler instance is gone.
Finish(s) ==
    /\ req[s].pc = "done"
    /\ req' = [req EXCEPT ![s] = Idle]
    /\ UNCHANGED <<vehicles, started>>
    /\ UNCHANGED client

\* One step of the handler instance in slot s; B is the set of bodies that
\* arrive.
Step(s, B) ==
    \/ Receive(s)
    \/ Auth(s)
    \/ POST_Json(s, B)
    \/ POST_Partner(s)
    \/ POST_Plate(s)
    \/ POST_Create(s)
    \/ GET_Partner(s)
    \/ GET_FindMany(s)
    \/ Finish(s)

\* Requests served concurrently: the handler instances interleave at their
\* awaits.
Next == \E s \in Slots : Step(s, RaceBodies)

Spec == Init /\ [][Next]_vars

\* Requests served one at a time, each with any of the bodies.
NextSerial == Step("r1", Bodies)

SpecSerial == Init /\ [][NextSerial]_vars

(* ------------------------------ properties --------------------------- *)

Done(s) == req[s].pc = "done"

\* A collaborator failed on its own: auth() or a persistence call threw
\* for a reason that is not the request's content (connection lost, ...).
Failed(r) == r.exc \in {"auth", "db"}

\* The body was parsed and carries truthy brand, model, year and plate.
Complete(b) ==
    /\ b.kind = "object"
    /\ Truthy(b.brand) /\ Truthy(b.model) /\ Truthy(b.year)
    /\ Truthy(b.licensePlate)

PlateInUseError == "A vehicle with this license plate already exists"

\* C1 as stated: every POST whose licensePlate is the plate of a vehicle
\* that was already stored is answered 400 "A vehicle with this license
\* plate already exists" and writes nothing.  (Read in the claim's favour:
\* the caller is authenticated, the partner exists, no collaborator fails.)
C1_AsStated ==
    \A s \in Slots :
        LET r == req[s] IN
        (Done(s) /\ r.kind = "POST" /\ ~Failed(r)
           /\ r.userId # "" /\ r.partnerId \in Partners
           /\ r.body.licensePlate \in r.platesAtReceive)
        => /\ r.resp.status = 400
           /\ r.resp.error = PlateInUseError
           /\ r.writes = 0

\* C1, amended: a POST whose licensePlate is the plate of a vehicle that
\* was already stored never writes a row; when it is authenticated, its
\* partner exists and its body carries brand, model and year, it is
\* answered 400 "A vehicle with this license plate already exists" (no
\* collaborator failing).
C1_DuplicatePlateRejected ==
    \A s \in Slots :
        LET r == req[s] IN
        (Done(s) /\ r.kind = "POST"
           /\ r.body.licensePlate \in r.platesAtReceive)
        => /\ r.writes = 0
           /\ (r.userId # "" /\ r.partnerId \in Partners
                 /\ Complete(r.body) /\ ~Failed(r))
              => (r.resp.status = 400 /\ r.resp.error = PlateInUseError)

\* A POST was answered "plate already exists" for a plate that a vehicle of
\* another partner carries.
C1_Witness ==
    \E s \in Slots :
        /\ Done(s) /\ req[s].kind = "POST"
        /\ req[s].resp.error = PlateInUseError
        /\ req[s].body.licensePlate \in req[s].platesAtReceive
        /\ \E i \in 1..Len(vehicles) :
             /\ vehicles[i].licensePlate = req[s].body.licensePlate
             /\ vehicles[i].partnerId # req[s].partnerId

\* C2: whatever the interleaving of concurrent POSTs, no two stored
\* vehicles have the same license plate.
C2_PlatesUnique ==
    \A i, j \in 1..Len(vehicles) :
        i # j => vehicles[i].licensePlate # vehicles[j].licensePlate

\* Two POSTs for one plate both passed the plate lookup; one inserted its
\* row and the other is about to insert.
C2_Witness ==
    \E s, u \in Slots :
        /\ s # u
        /\ req[s].pc = "create"
        /\ Done(u) /\ req[u].writes = 1
        /\ req[u].body.licensePlate = req[s].body.licensePlate

\* C3 as stated: a POST whose insert the unique index rejects is answered
\* 400.
C3_AsStated ==
    \A s \in Slots :
        (Done(s) /\ req[s].exc = "P2002") => req[s].resp.status = 400

\* C4 as stated: a POST whose partnerId matches no partner is answered 404
\* and writes nothing, whatever its body: valid, incomplete or unparseable.
\* (Read in the claim's favour: the caller is authenticated, no
\* collaborator fails.)
C4_AsStated ==
    \A s \in Slots :
        LET r == req[s] IN
        (Done(s) /\ r.kind = "POST" /\ r.partnerId \notin Partners
           /\ r.userId # "" /\ ~Failed(r))
        => (r.resp.status = 404 /\ r.writes = 0)

\* C4, amended: a POST whose partnerId matches no partner never writes a
\* row; it is answered 401 when no user is resolved, 500 when its body is
\* unparseable, and 404 otherwise (no collaborator failing).
C4_UnknownPartner ==
    \A s \in Slots :
        LET r == req[s] IN
        (Done(s) /\ r.kind = "POST" /\ r.partnerId \notin Partners)
        => /\ r.writes = 0
           /\ ~Failed(r) =>
                r.resp.status = (IF r.userId = "" THEN 401
                                 ELSE IF r.exc = "json" THEN 500
                                 ELSE 404)
           /\ r.resp.status = 404 => r.resp.error = "Partner not found"

\* A POST with a complete body for an unknown partner was answered 404
\* while its plate is free.
C4_Witness ==
    \E s \in Slots :
        /\ Done(s) /\ req[s].kind = "POST"
        /\ req[s].partnerId \notin Partners
        /\ Complete(req[s].body)
        /\ req[s].body.licensePlate \notin StoredPlates(vehicles)
        /\ req[s].resp.status = 404

RequiredFields == <<"brand", "model", "year", "licensePlate">>

\* An authenticated POST to a stored partner whose body was parsed, no
\* collaborator failing.
Validated(r) ==
    /\ r.kind = "POST" /\ r.pc = "done"
    /\ r.userId # "" /\ r.partnerId \in Partners
    /\ r.exc # "json" /\ ~Failed(r)

MissingFieldsError(r) ==
    r.resp.status = 400 /\ r.resp.error = "Missing required fields"

\* The response lists exactly the fields of M, each once.
ListsExactly(r, M) ==
    /\ {r.resp.missing[j] : j \in 1..Len(r.resp.missing)} = M
    /\ Len(r.resp.missing) = Cardinality(M)

\* C5 as stated: for an authenticated POST to an existing partner, when
\* some of brand, model, year, licensePlate are absent from the body the
\* response is 400 and lists exactly the absent fields, and nothing is
\* written; when none is absent that 400 is not returned.  (Read in the
\* claim's favour: the body is a JSON object.)
C5_AsStated ==
    \A s \in Slots :
        LET r == req[s]
            A == {f \in {"brand", "model", "year", "licensePlate"} :
                    r.body[f].t = "absent"}
        IN (Validated(r) /\ r.body.kind = "object") =>
             /\ A # {} => (MissingFieldsError(r) /\ ListsExactly(r, A)
                             /\ r.writes = 0)
             /\ A = {} => ~MissingFieldsError(r)

\* C5, amended: for an authenticated POST to an existing partner whose body
\* is a JSON object, when some of brand, model, year, licensePlate are
\* absent or falsy (empty string, 0) the response is 400 and lists exactly
\* those fields, in that order, and nothing is written; when none is, that
\* 400 is not returned.  A body that is JSON null is answered 500.
C5_MissingFieldsListed ==
    \A s \in Slots :
        LET r == req[s]
            M == {f \in {"brand", "model", "year", "licensePlate"} :
                    ~Truthy(r.body[f])}
        IN Validated(r) =>
             /\ (r.body.kind = "object" /\ M # {}) =>
                  /\ MissingFieldsError(r)
                  /\ ListsExactly(r, M)
                  /\ r.resp.missing =
                       SelectSeq(RequiredFields, LAMBDA f : f \in M)
                  /\ r.writes = 0
             /\ (r.body.kind = "object" /\ M = {}) => ~MissingFieldsError(r)
             /\ r.body.kind = "null" =>
                  (r.resp.status = 500 /\ r.writes = 0)

\* A POST without brand and year was answered with exactly those two.
C5_Witness ==
    \E s \in Slots :
        /\ Validated(req[s])
        /\ req[s].body.brand = Absent /\ req[s].body.year = Absent
        /\ req[s].body.model # Absent /\ req[s].body.licensePlate # Absent
        /\ req[s].resp.missing = <<"brand", "year">>

\* C6: for GET and POST, while no user identity is resolved the handler
\* has made no persistence read or write and has not read the body, and
\* when auth() resolves without a user the response is 401.
C6_AuthFirst ==
    \A s \in Slots :
        LET r == req[s] IN
        r.userId = "" =>
            /\ r.reads = 0 /\ r.writes = 0
            /\ r.body = EmptyObject
            /\ r.pc \in {"idle", "auth", "done"}
            /\ (r.pc = "done" /\ r.exc = "") =>
                 (r.resp.status = 401 /\ r.resp.error = "Unauthorized")
            /\ (r.pc = "done" /\ r.exc # "") => r.exc = "auth"

\* A GET and a POST were both answered 401 while a vehicle is stored.
C6_Witness ==
    \E s, u \in Slots :
        /\ req[s].kind = "GET" /\ Done(s) /\ req[s].resp.status = 401
        /\ req[u].kind = "POST" /\ Done(u) /\ req[u].resp.status = 401
        /\ vehicles # <<>>

\* C7: an authenticated GET for an existing partner (no collaborator
\* failing) returns 200 with exactly the vehicles of that partner that
\* were stored when findMany ran, each once, none of another partner,
\* ordered by creation time descending; with no vehicle, the empty array.
C7_GetListsPartnerVehicles ==
    \A s \in Slots :
        LET r == req[s]
            d == r.resp.data
        IN (Done(s) /\ r.kind = "GET" /\ r.userId # ""
              /\ r.partnerId \in Partners /\ ~Failed(r))
           => /\ r.resp.status = 200
              /\ \E n \in 0..Len(vehicles) :
                   {d[j] : j \in 1..Len(d)} =
                     {vehicles[i] : i \in {k \in 1..n :
                          vehicles[k].partnerId = r.partnerId}}
              /\ \A j, k \in 1..Len(d) : j # k => d[j] # d[k]
              /\ \A j, k \in 1..Len(d) :
                   j < k => d[j].createdAt >= d[k].createdAt
              /\ r.writes = 0

\* A GET returned the two vehicles of its partner, the newer one first.
C7_Witness ==
    \E s \in Slots :
        /\ Done(s) /\ req[s].kind = "GET" /\ req[s].resp.status = 200
        /\ Len(req[s].resp.data) = 2
        /\ req[s].resp.data[1].createdAt > req[s].resp.data[2].createdAt
        /\ req[s].resp.data[1].id > req[s].resp.data[2].id

\* The integer a client submits as the number or numeric string v.
IntegerOf(v) == IF v.t = "num" THEN v.n ELSE DecimalOf(Chars(v.s), 0)

\* The body is accepted: the request is authenticated, its partner exists,
\* the four required fields are present and the plate is unused.
Accepted(r) ==
    /\ r.kind = "POST" /\ r.userId # "" /\ r.partnerId \in Partners
    /\ Complete(r.body) /\ ~Failed(r)
    /\ r.body.licensePlate \notin r.platesAtReceive

\* C8 as stated: a successful POST returns a record whose year and capacity
\* are integers equal to the submitted values, and an accepted body always
\* yields such a record, also when capacity is omitted.
C8_AsStated ==
    \A s \in Slots :
        LET r == req[s] IN
        (Done(s) /\ r.kind = "POST") =>
            /\ r.resp.status = 200 =>
                 /\ r.resp.data[1].year = Num(IntegerOf(r.body.year))
                 /\ r.resp.data[1].capacity.t = "num"
                 /\ r.body.capacity # Absent =>
                      r.resp.data[1].capacity =
                          Num(IntegerOf(r.body.capacity))
            /\ Accepted(r) => r.resp.status = 200

\* The value stored for an optional property with default d.
Given(v, d) == IF v.t = "absent" THEN d ELSE v

\* C9: a successful POST stores vehicleType SEDAN, status AVAILABLE and
\* isForeignPlate false when the body omits them and the submitted value
\* otherwise, the body's brand as make, and the path partnerId as owner.
C9_DefaultsAndOwner ==
    \A s \in Slots :
        LET r == req[s] IN
        (Done(s) /\ r.kind = "POST" /\ r.resp.status = 200) =>
            LET row == r.resp.data[1] IN
            /\ Len(r.resp.data) = 1
            /\ row.id \in 1..Len(vehicles) /\ vehicles[row.id] = row
            /\ row.vehicleType = Given(r.body.vehicleType, Str("SEDAN"))
            /\ row.status = Given(r.body.status, Str("AVAILABLE"))
            /\ row.isForeignPlate = Given(r.body.isForeignPlate, Bool(FALSE))
            /\ row.make = r.body.brand
            /\ row.model = r.body.model
            /\ row.licensePlate = r.body.licensePlate
            /\ row.partnerId = r.partnerId

\* A POST that gave a status and a foreign-plate flag but no vehicle type
\* succeeded.
C9_Witness ==
    \E s \in Slots :
        /\ Done(s) /\ req[s].kind = "POST" /\ req[s].resp.status = 200
        /\ req[s].body.vehicleType = Absent
        /\ req[s].body.status = Str("IN_USE")
        /\ req[s].body.isForeignPlate = Bool(TRUE)
        /\ req[s].resp.data[1].vehicleType = Str("SEDAN")

GenericError(kind) ==
    IF kind = "GET" THEN "Failed to fetch vehicles"
    ELSE "Failed to add vehicle"

\* C10: a request returns at most one response, exactly one once its
\* handler has ended, and a handler that has not ended can always take its
\* next step; the status is 200, 400, 401, 404 or 500; an exception from
\* auth(), the body parse or a persistence call is answered 500 with the
\* generic message, and 500 is answered only then; a request answered
\* other than 200 has written no vehicle.
C10_OneResponse ==
    \A s \in Slots :
        LET r == req[s] IN
        /\ r.nresp = (IF r.pc = "done" THEN 1 ELSE 0)
        /\ r.pc \notin {"idle", "done"} => ENABLED Step(s, RaceBodies)
        /\ r.pc = "done" => r.resp.status \in {200, 400, 401, 404, 500}
        /\ r.pc # "done" => (r.exc = "" /\ r.resp = NoResponse)
        /\ r.exc # "" <=> (r.pc = "done" /\ r.resp.status = 500)
        /\ r.resp.status = 500 => r.resp.error = GenericError(r.kind)
        /\ r.writes = (IF r.resp.status = 200 /\ r.kind = "POST" THEN 1
                       ELSE 0)

\* One request was answered 500 for an unparseable body and the other 500
\* for an insert that the database rejected.
C10_Witness ==
    \E s, u \in Slots :
        /\ Done(s) /\ req[s].exc = "json" /\ req[s].resp.status = 500
        /\ Done(u) /\ req[u].exc = "P2002" /\ req[u].resp.status = 500

(* ------------- client: submitting a form (SpecSubmit) ------------------ *)

\* Submits of one component in a behaviour.
MaxSubmits == 2

\* SimpleCarForm.handleSubmit up to its await: setIsLoading(true), then
\* onSubmit(data) is called and awaited.
ScfSubmitTry(f) ==
    [f EXCEPT !.isLoading = TRUE, !.pending = @ + 1, !.submitted = @ + 1]

\* Its catch block: toast.error("Failed to save vehicle").
ScfSubmitCatch(f) ==
    [f EXCEPT !.errorToasts = @ + 1, !.rejected = @ + 1]

ScfSubmitFinally_Skipped(f) == f

\* Its finally block: setIsLoading(false).
ScfSubmitFinally(f) == [f EXCEPT !.isLoading = FALSE]

\* The user presses the submit button, which is disabled while isLoading.
ScfSubmit ==
    /\ ~scf.isLoading
    /\ scf.submitted < MaxSubmits
    /\ scf' = ScfSubmitTry(scf)
    /\ UNCHANGED <<server, pcd, vl>>

\* The awaited onSubmit resolves: try block ends, then finally.
ScfResolved ==
    /\ scf.pending > 0
    /\ scf' = ScfSubmitFinally([scf EXCEPT !.pending = @ - 1])
    /\ UNCHANGED <<server, pcd, vl>>

\* The awaited onSubmit rejects: catch, then finally.
ScfRejected ==
    /\ scf.pending > 0
    /\ scf' = ScfSubmitFinally(ScfSubmitCatch([scf EXCEPT !.pending = @ - 1]))
    /\ UNCHANGED <<server, pcd, vl>>

\* PlateCarDialog.handleSubmit up to its await: setIsSubmitting(true),
\* then onSubmit(data) is called and awaited.
PcdSubmitTry(d) ==
    [d EXCEPT !.isSubmitting = TRUE, !.pending = @ + 1, !.submitted = @ + 1]

\* After the await: onOpenChange(false), toast.success("Vehicle saved
\* successfully").
PcdSubmitThen(d) ==
    [d EXCEPT !.open = FALSE, !.successToasts = @ + 1, !.resolved = @ + 1]

\* Its catch block: toast.error("Failed to save vehicle").
PcdSubmitCatch(d) ==
    [d EXCEPT !.errorToasts = @ + 1, !.rejected = @ + 1]

\* Its finally block: setIsSubmitting(false).
PcdSubmitFinally(d) == [d EXCEPT !.isSubmitting = FALSE]

\* PlateCarForm hands one submit at a time to its onSubmit prop, as
\* SimpleCarForm does.
PlateCarFormCanSubmit(d) == d.pending = 0

\* The parent opens the dialog.
PcdOpen ==
    /\ ~pcd.open
    /\ pcd' = [pcd EXCEPT !.open = TRUE]
    /\ UNCHANGED <<server, scf, vl>>

\* The user cancels or dismisses the dialog: onOpenChange(false).
PcdCancel ==
    /\ pcd.open
    /\ pcd' = [pcd EXCEPT !.open = FALSE]
    /\ UNCHANGED <<server, scf, vl>>

\* PlateCarForm calls its onSubmit prop, the dialog's handleSubmit.
PcdSubmit ==
    /\ pcd.open
    /\ PlateCarFormCanSubmit(pcd)
    /\ pcd.submitted < MaxSubmits
    /\ pcd' = PcdSubmitTry(pcd)
    /\ UNCHANGED <<server, scf, vl>>

PcdResolved ==
    /\ pcd.pending > 0
    /\ pcd' = PcdSubmitFinally(PcdSubmitThen([pcd EXCEPT !.pending = @ - 1]))
    /\ UNCHANGED <<server, scf, vl>>

PcdRejected ==
    /\ pcd.pending > 0
    /\ pcd' = PcdSubmitFinally(PcdSubmitCatch([pcd EXCEPT !.pending = @ - 1]))
    /\ UNCHANGED <<server, scf, vl>>

NextSubmit ==
    \/ ScfSubmit
    \/ ScfResolved
    \/ ScfRejected
    \/ PcdOpen
    \/ PcdCancel
    \/ PcdSubmit
    \/ PcdResolved
    \/ PcdRejected

SpecSubmit == Init /\ [][NextSubmit]_vars

\* The flags follow the pending callback, and every rejection has shown one
\* failure notification.
FlagsFollowPending ==
    /\ scf.isLoading <=> scf.pending > 0
    /\ pcd.isSubmitting <=> pcd.pending > 0
    /\ scf.errorToasts = scf.rejected
    /\ pcd.errorToasts = pcd.rejected
    /\ pcd.successToasts = pcd.resolved

\* What a settling callback does to the dialog: rejected, it leaves open as
\* it was; resolved, it closes the dialog.
SettleAndDialog ==
    /\ pcd'.rejected > pcd.rejected => pcd'.open = pcd.open
    /\ pcd'.resolved > pcd.resolved => ~pcd'.open

MaxLookups == 2

\* The delay of the debounce timer, in milliseconds.
DebounceMs == 1000

\* Time advances in steps of half the delay.
TickMs == DebounceMs \div 2

Upper ==
    {"A", "B", "C", "D", "E", "F", "G", "H", "I", "J", "K", "L", "M", "N",
     "O", "P", "Q", "R", "S", "T", "U", "V", "W", "X", "Y", "Z"}

\* /^[A-Z]{2}-\d{3}-[A-Z]{2}$/.test(plate)
isFrenchPlateFormat(plate) ==
    /\ Len(plate) = 9
    /\ \A i \in {1, 2, 8, 9} : plate[i] \in Upper
    /\ \A i \in {3, 7} : plate[i] = "-"
    /\ \A i \in {4, 5, 6} : DigitValue(plate[i]) >= 0

\* Texts the user leaves in the licence-plate input: blank, two plates in
\* the French format, one in lower case, one a character short, one with a
\* trailing blank.
TypedPlates ==
    {<<>>,
     <<"A", "B", "-", "1", "2", "3", "-", "C", "D">>,
     <<"E", "F", "-", "4", "5", "6", "-", "G", "H">>,
     <<"a", "b", "-", "1", "2", "3", "-", "c", "d">>,
     <<"A", "B", "-", "1", "2", "3", "-", "C">>,
     <<"A", "B", "-", "1", "2", "3", "-", "C", "D", " ">>}

EffectCleanup_KeepTimer(f) == f

\* The effect's cleanup: clearTimeout(timer).  Only the timer of the last
\* run of the effect can be pending.
EffectCleanup(f) == [f EXCEPT !.timers = {}]

\* The effect body: arm the timer when the toggle is on and the plate is a
\* non-empty text in the French format.
EffectRun(f) ==
    IF f.isFrenchPlate /\ f.licensePlate # <<>>
       /\ isFrenchPlateFormat(f.licensePlate)
    THEN [f EXCEPT !.timers =
              @ \cup {[plate |-> f.licensePlate, remaining |-> DebounceMs]}]
    ELSE f

\* A change of a dependency of the effect: the cleanup of the previous run,
\* then the effect again.
DepsChanged(f) == EffectRun(EffectCleanup([f EXCEPT !.quiet = 0]))

\* The user edits the licence plate; the input is disabled while
\* isCheckingPlate.
PlateEdit ==
    /\ ~scf.isCheckingPlate
    /\ \E p \in TypedPlates \ {scf.licensePlate} :
           scf' = DepsChanged([scf EXCEPT !.licensePlate = p])
    /\ UNCHANGED <<server, pcd, vl>>

\* The user flips the French-plate switch, which is never disabled.
PlateToggle ==
    /\ scf' = DepsChanged([scf EXCEPT !.isFrenchPlate = ~@])
    /\ UNCHANGED <<server, pcd, vl>>

\* Time passes.
PlateTick ==
    /\ scf.quiet < DebounceMs \/ \E t \in scf.timers : t.remaining > 0
    /\ scf' = [scf EXCEPT
           !.quiet = IF @ + TickMs > DebounceMs THEN DebounceMs
                     ELSE @ + TickMs,
           !.timers = {[t EXCEPT !.remaining =
                            IF @ > TickMs THEN @ - TickMs ELSE 0] : t \in @}]
    /\ UNCHANGED <<server, pcd, vl>>

\* fetchVehicleData(plate) up to its await: setIsCheckingPlate(true) and
\* the request is sent.
FetchVehicleDataTry(f, plate) ==
    [f EXCEPT !.isCheckingPlate = TRUE, !.inflight = Append(@, plate),
              !.lookups = @ + 1]

\* A timer is due: its callback calls fetchVehicleData with the plate of
\* the render that armed it.
PlateTimerFires ==
    /\ scf.lookups < MaxLookups
    /\ \E t \in scf.timers :
           /\ t.remaining = 0
           /\ scf' = FetchVehicleDataTry(
                         [scf EXCEPT !.timers = @ \ {t}], t.plate)
    /\ UNCHANGED <<server, pcd, vl>>

\* The sequence without its i-th element.
Without(seq, i) == SubSeq(seq, 1, i - 1) \o SubSeq(seq, i + 1, Len(seq))

\* The finally block of fetchVehicleData: setIsCheckingPlate(false).
FetchVehicleDataFinally(f) == [f EXCEPT !.isCheckingPlate = FALSE]

\* A lookup is answered with data.success: form.setValue of make, model
\* and year, a success notification, then finally.
LookupSucceeds ==
    /\ \E i \in 1..Len(scf.inflight) :
           scf' = FetchVehicleDataFinally(
                      [scf EXCEPT
                           !.inflight = Without(@, i),
                           !.plateToasts = @ + 1,
                           !.filled = [written |-> TRUE,
                                       plate |-> scf.inflight[i],
                                       current |-> scf.licensePlate,
                                       toggle |-> scf.isFrenchPlate]])
    /\ UNCHANGED <<server, pcd, vl>>

\* A lookup fails (network error, non-2xx, unreadable body) or is answered
\* without data.success: an error notification, then finally.
LookupFails ==
    /\ \E i \in 1..Len(scf.inflight) :
           scf' = FetchVehicleDataFinally(
                      [scf EXCEPT !.inflight = Without(@, i),
                                  !.plateToasts = @ + 1])
    /\ UNCHANGED <<server, pcd, vl>>

NextPlate ==
    \/ PlateEdit
    \/ PlateToggle
    \/ PlateTick
    \/ PlateTimerFires
    \/ LookupSucceeds
    \/ LookupFails

SpecPlate == Init /\ [][NextPlate]_vars

\* At most one timer is pending, and it is for the present plate, which is
\* in the French format, with the toggle on.
OneTimerForPresentPlate ==
    /\ Cardinality(scf.timers) <= 1
    /\ \A t \in scf.timers :
           /\ t.plate = scf.licensePlate
           /\ isFrenchPlateFormat(t.plate)
           /\ scf.isFrenchPlate
           /\ t.remaining + scf.quiet >= DebounceMs

\* A step that starts a lookup starts it for the present plate, in the
\* French format, toggle on, unchanged for the whole delay.
LookupStartsOnlyWhenDue ==
    scf'.lookups > scf.lookups =>
        /\ scf'.inflight[Len(scf'.inflight)] = scf.licensePlate
        /\ isFrenchPlateFormat(scf.licensePlate)
        /\ scf.isFrenchPlate
        /\ scf.quiet >= DebounceMs
        /\ scf'.timers = {}

\* A step that changes the plate or the toggle leaves no timer armed before
\* it.
ChangeCancelsTimer ==
    (scf'.licensePlate # scf.licensePlate
       \/ scf'.isFrenchPlate # scf.isFrenchPlate) =>
        \A t \in scf'.timers : t.remaining = DebounceMs

\* C12: the plate lookup is called only for a plate in the XX-123-XX format
\* while the French-plate toggle is on, and only after the value has stayed
\* unchanged for the full 1000 ms; every change of plate or toggle cancels
\* the pending timer, so at most one timer is pending and a superseded
\* plate is never looked up.
C12_DebouncedLookup ==
    /\ []OneTimerForPresentPlate
    /\ [][LookupStartsOnlyWhenDue /\ ChangeCancelsTimer]_vars

\* A lookup is in flight for the second plate typed, after a timer armed
\* for another text had been cancelled by the edit.
C12_Witness ==
    /\ scf.lookups = 1
    /\ scf.inflight = <<scf.licensePlate>>
    /\ scf.licensePlate = <<"E", "F", "-", "4", "5", "6", "-", "G", "H">>
    /\ scf.timers = {}
    /\ scf.quiet = DebounceMs

\* C18, as stated: isCheckingPlate is true exactly while a plate lookup is
\* in flight; at most one lookup is in flight at a time and the flag is
\* never false while a lookup is still pending, also when the toggle is
\* switched off and on during a lookup; a lookup response writes make,
\* model and year only for the plate that is still the present
\* licence-plate value, with the toggle still on.
C18_AsStated ==
    /\ scf.isCheckingPlate <=> Len(scf.inflight) > 0
    /\ Len(scf.inflight) <= 1
    /\ scf.filled.written =>
           (scf.filled.plate = scf.filled.current /\ scf.filled.toggle)

(* ------------- client: the vehicle list (SpecList) --------------------- *)

\* Requests the user starts in a behaviour (the fetch at mount included).
MaxCalls == 3

\* Vehicles a partner's list can show.
VehicleIds == {"v1", "v2"}

\* The blank defaults of handleAddVehicle.
Blank == "blank"

\* A step starts with no notification on screen from it yet.
Quiet(l) == [l EXCEPT !.toast = None]

\* fetch(url, {method, signal}) is called, its abort timer armed:
\*   const timeoutId = setTimeout(() => controller.abort(), 5000)
Send(l, kind, method, p, vehicleId, data) ==
    [l EXCEPT !.issued = @ + 1,
              !.calls = @ \cup {[id |-> l.issued + 1, kind |-> kind,
                                 method |-> method, partnerId |-> p,
                                 vehicleId |-> vehicleId, data |-> data,
                                 phase |-> "headers"]}]

\* clearTimeout(timeoutId) runs as soon as fetch() has resolved, before the
\* body is read: the timer is armed only while the headers are awaited.
TimerArmed(c) == c.phase = "headers"

\* fetchPartnerVehicles() of a render whose partnerId prop is p, up to its
\* await.
fetchPartnerVehicles(l, p) ==
    Send([l EXCEPT !.isLoading = TRUE, !.lastFetch[p] = l.issued + 1],
         "list", "GET", p, None, None)

\* The rest of each try block once the awaited value is there.
OnResolved(l, c, rows) ==
    CASE c.kind = "list" ->
           [l EXCEPT !.vehicles = [by |-> c.id, rows |-> rows]]
      [] c.kind = "detail" ->
           [l EXCEPT !.defaultValues = c.vehicleId,
                     !.showVehicleDialog = TRUE]
      [] c.kind = "save" ->
           fetchPartnerVehicles(
               [l EXCEPT !.toast = "success", !.showVehicleDialog = FALSE],
               c.partnerId)
      [] OTHER ->
           fetchPartnerVehicles(
               [l EXCEPT !.toast = "success",
                         !.showDeleteVehicleDialog = FALSE,
                         !.vehicleToDelete = None],
               c.partnerId)

\* The catch blocks.
OnRejected(l, c) ==
    IF c.kind = "list"
    THEN [l EXCEPT !.vehicles = [by |-> c.id, rows |-> FALSE],
                   !.toast = "error"]
    ELSE [l EXCEPT !.toast = "error"]

\* The finally blocks; handleDeleteVehicle has none.
OnSettled(l, c) ==
    CASE c.kind = "list" -> [l EXCEPT !.isLoading = FALSE]
      [] c.kind \in {"detail", "save"} -> [l EXCEPT !.isSubmitting = FALSE]
      [] OTHER -> l

\* The handler that awaits c goes on: c is no longer awaited.
Resume(l, c) == Quiet([l EXCEPT !.calls = @ \ {c}])

Resolved(l, c, rows) == OnSettled(OnResolved(Resume(l, c), c, rows), c)

Rejected(l, c) == OnSettled(OnRejected(Resume(l, c), c), c)

\* fetch() resolves with the response: clearTimeout, then response.ok is
\* tested; handleDeleteVehicle reads no body of a 2xx response, the others
\* await response.json(), and all await response.text() of a non-2xx one.
VlResponse(c) ==
    /\ c.phase = "headers"
    /\ \E ok \in BOOLEAN :
           vl' = IF ok /\ c.kind = "delete"
                 THEN Resolved(vl, c, FALSE)
                 ELSE Quiet([vl EXCEPT !.calls = (@ \ {c}) \cup
                         {[c EXCEPT !.phase = IF ok THEN "json" ELSE "text"]}])
    /\ UNCHANGED <<server, scf, pcd>>

\* fetch() rejects on a network failure.
VlNetworkFails(c) ==
    /\ c.phase = "headers"
    /\ vl' = Rejected(vl, c)
    /\ UNCHANGED <<server, scf, pcd>>

\* The abort timer fires: controller.abort() makes fetch() reject.
VlTimeout(c) ==
    /\ TimerArmed(c)
    /\ vl' = Rejected(vl, c)
    /\ UNCHANGED <<server, scf, pcd>>

\* The awaited body arrives: the JSON of a 2xx response (a list with or
\* without rows), or the text of a non-2xx one, after which the handler
\* throws.
VlBody(c) ==
    /\ c.phase \in {"json", "text"}
    /\ \E rows \in (IF c.kind = "list" /\ c.phase = "json" THEN BOOLEAN
                    ELSE {FALSE}) :
           vl' = IF c.phase = "json" THEN Resolved(vl, c, rows)
                 ELSE Rejected(vl, c)
    /\ UNCHANGED <<server, scf, pcd>>

\* Reading the body fails: the connection drops or the JSON is malformed.
VlBodyFails(c) ==
    /\ c.phase \in {"json", "text"}
    /\ vl' = Rejected(vl, c)
    /\ UNCHANGED <<server, scf, pcd>>

\* The partnerId prop changes: the effect calls fetchPartnerVehicles.
VlPartnerChange ==
    /\ vl.issued < MaxCalls
    /\ \E p \in Partners \ {vl.partnerId} :
           vl' = fetchPartnerVehicles(Quiet([vl EXCEPT !.partnerId = p]), p)
    /\ UNCHANGED <<server, scf, pcd>>

\* No modal dialog is open: the card behind can be operated.
ListInteractive(l) == ~l.showVehicleDialog /\ ~l.showDeleteVehicleDialog

\* The table rows, with their menus, are rendered.
RowsShown(l) == ~l.isLoading /\ l.vehicles.rows

handleAddVehicle(l) ==
    [l EXCEPT !.currentVehicleId = None, !.isEditingVehicle = FALSE,
              !.defaultValues = Blank, !.showVehicleDialog = TRUE]

\* handleEditVehicle(vehicleId) up to its await.
handleEditVehicle(l, vehicleId) ==
    Send([l EXCEPT !.currentVehicleId = vehicleId,
                   !.isEditingVehicle = TRUE, !.isSubmitting = TRUE],
         "detail", "GET", l.partnerId, vehicleId, None)

confirmDeleteVehicle(l, vehicle) ==
    [l EXCEPT !.vehicleToDelete = vehicle, !.showDeleteVehicleDialog = TRUE,
              !.lastConfirmed = vehicle]

handleDeleteVehicle_AnyVehicle(l) ==
    Send(l, "delete", "DELETE", l.partnerId,
         IF l.vehicleToDelete = None THEN "v1" ELSE "v2", None)

\* handleDeleteVehicle() up to its await.
handleDeleteVehicle(l) ==
    IF l.vehicleToDelete = None THEN l
    ELSE Send(l, "delete", "DELETE", l.partnerId, l.vehicleToDelete, None)

\* handleSubmitVehicle(data) up to its await; complete tells whether data
\* has all of brand, model, year, licensePlate and capacity.  The request
\* carries the values of the form, which was filled from defaultValues.
handleSubmitVehicle(l, complete) ==
    IF ~complete
    THEN [l EXCEPT !.toast = "error", !.isSubmitting = FALSE]
    ELSE Send([l EXCEPT !.isSubmitting = TRUE], "save",
              IF l.isEditingVehicle THEN "PUT" ELSE "POST",
              l.partnerId,
              IF l.isEditingVehicle /\ l.currentVehicleId # None
              THEN l.currentVehicleId ELSE None,
              l.defaultValues)

\* VehicleDialog offers its submit button unless isSubmitting.
VehicleDialogCanSubmit(l) == l.showVehicleDialog /\ ~l.isSubmitting

\* The user presses Add Vehicle.
VlAdd ==
    /\ ListInteractive(vl)
    /\ vl' = handleAddVehicle(Quiet(vl))
    /\ UNCHANGED <<server, scf, pcd>>

\* The user picks Edit in the menu of a row.
VlEdit ==
    /\ ListInteractive(vl) /\ RowsShown(vl)
    /\ vl.issued < MaxCalls
    /\ \E v \in VehicleIds : vl' = handleEditVehicle(Quiet(vl), v)
    /\ UNCHANGED <<server, scf, pcd>>

\* The user picks Delete in the menu of a row.
VlConfirmDelete ==
    /\ ListInteractive(vl) /\ RowsShown(vl)
    /\ \E v \in VehicleIds : vl' = confirmDeleteVehicle(Quiet(vl), v)
    /\ UNCHANGED <<server, scf, pcd>>

\* The user presses Delete in the confirmation modal: the AlertDialogAction
\* closes the modal through onOpenChange and calls handleDeleteVehicle.
VlDeletePressed ==
    /\ vl.showDeleteVehicleDialog
    /\ vl.issued < MaxCalls
    /\ vl' = [handleDeleteVehicle(Quiet(vl))
                  EXCEPT !.showDeleteVehicleDialog = FALSE]
    /\ UNCHANGED <<server, scf, pcd>>

\* The user presses Cancel in the confirmation modal, or dismisses it.
VlDeleteCancelled ==
    /\ vl.showDeleteVehicleDialog
    /\ vl' = [Quiet(vl) EXCEPT !.showDeleteVehicleDialog = FALSE]
    /\ UNCHANGED <<server, scf, pcd>>

\* The form dialog submits.
VlSubmit ==
    /\ VehicleDialogCanSubmit(vl)
    /\ vl.issued < MaxCalls
    /\ \E complete \in BOOLEAN :
           vl' = handleSubmitVehicle(Quiet(vl), complete)
    /\ UNCHANGED <<server, scf, pcd>>

\* The user dismisses the form dialog: onOpenChange(false).
VlDialogClosed ==
    /\ vl.showVehicleDialog
    /\ vl' = [Quiet(vl) EXCEPT !.showVehicleDialog = FALSE]
    /\ UNCHANGED <<server, scf, pcd>>

NextList ==
    \/ \E c \in vl.calls : VlResponse(c)
    \/ \E c \in vl.calls : VlNetworkFails(c)
    \/ \E c \in vl.calls : VlTimeout(c)
    \/ \E c \in vl.calls : VlBody(c)
    \/ \E c \in vl.calls : VlBodyFails(c)
    \/ VlPartnerChange
    \/ VlAdd
    \/ VlEdit
    \/ VlConfirmDelete
    \/ VlDeletePressed
    \/ VlDeleteCancelled
    \/ VlSubmit
    \/ VlDialogClosed

SpecList == Init /\ [][NextList]_vars

\* The calls of fetchPartnerVehicles that have not ended.
Fetching == {c \in vl.calls : c.kind = "list"}

\* C13, as stated: every call of fetchPartnerVehicles ends and leaves
\* isLoading false, also when it stalls while the response body is read:
\* as long as a call has not ended, its 5-second timer is there to end it,
\* so the list is never left loading forever.
C13_AsStated == \A c \in Fetching : ENABLED VlTimeout(c)

\* The calls of these kinds that end in this step.
Settling(kinds) ==
    {c \in vl.calls : c.kind \in kinds /\ \A d \in vl'.calls : d.id # c.id}

\* A call of fetchPartnerVehicles starts in this step.
Refetch == \E c \in vl'.calls : c.kind = "list" /\ c.id > vl.issued

\* C14, as stated: a save or delete that got a 2xx response closes its
\* dialog and starts a new fetch of the collection; a save or delete that
\* fails (network error, timeout, non-2xx) starts no fetch, leaves vehicles
\* unchanged and leaves the save dialog as it is; isSubmitting is false
\* once a save has settled; vehicles changes only when a fetch ends.
C14_AsStated ==
    [][/\ \A c \in Settling({"save"}) :
              /\ ~vl'.isSubmitting
              /\ c.phase = "json" => (Refetch /\ ~vl'.showVehicleDialog)
       /\ \A c \in Settling({"delete"}) :
              c.phase = "headers" /\ vl'.toast = "success" =>
                  (Refetch /\ ~vl'.showDeleteVehicleDialog)
       /\ \A c \in Settling({"save", "delete"}) :
              c.phase = "text" \/ vl'.toast = "error" =>
                  /\ ~Refetch
                  /\ vl'.vehicles = vl.vehicles
                  /\ vl'.showVehicleDialog = vl.showVehicleDialog
       /\ vl'.vehicles # vl.vehicles => Settling({"list"}) # {}]_vars

\* Without the response body of a 2xx save in the way: everything else C14
\* says.
C14_ApartFromBody ==
    [][/\ \A c \in Settling({"save"}) :
              /\ ~vl'.isSubmitting
              /\ c.phase = "json" /\ vl'.toast = "success" =>
                     (Refetch /\ ~vl'.showVehicleDialog)
       /\ \A c \in Settling({"delete"}) :
              c.phase = "headers" /\ vl'.toast = "success" =>
                  (Refetch /\ ~vl'.showDeleteVehicleDialog)
       /\ \A c \in Settling({"save", "delete"}) :
              vl'.toast = "error" =>
                  /\ ~Refetch
                  /\ vl'.vehicles = vl.vehicles
                  /\ vl'.showVehicleDialog = vl.showVehicleDialog
       /\ vl'.vehicles # vl.vehicles => Settling({"list"}) # {}]_vars

\* C16, as stated: once no fetch of the collection is pending, the rows
\* shown are those of the fetch issued last for the present partnerId,
\* never those of an older fetch or of a previous partner.
C16_AsStated ==
    (Fetching = {} /\ vl.vehicles.rows) =>
        vl.vehicles.by = vl.lastFetch[vl.partnerId]

\* C17, as stated: while the form dialog is open with the default values of
\* vehicle V, the mode is edit and currentVehicleId is V; a PUT goes to the
\* URL of the vehicle whose data it carries, never to the collection URL,
\* and a POST never carries a loaded vehicle.
C17_AsStated ==
    /\ (vl.showVehicleDialog /\ vl.defaultValues \in VehicleIds) =>
           (vl.isEditingVehicle /\ vl.currentVehicleId = vl.defaultValues)
    /\ \A c \in vl.calls :
           c.kind = "save" =>
               IF c.method = "PUT"
               THEN c.vehicleId # None /\ c.data = c.vehicleId
               ELSE c.data \notin VehicleIds

\* The one part of C17 that needs no ordering: a PUT has a vehicle's URL.
C17_PutHasVehicleUrl ==
    \A c \in vl.calls : c.method = "PUT" => c.vehicleId \in VehicleIds

\* The DELETE requests that start in this step.
NewDeletes == {c \in vl'.calls : c.method = "DELETE" /\ c.id > vl.issued}

\* While the confirmation modal is open a vehicle is selected, the one of
\* the latest confirmDeleteVehicle; with vehicleToDelete null,
\* handleDeleteVehicle would send nothing; only handleDeleteVehicle sends
\* DELETE.
DeleteModalHasVehicle ==
    /\ vl.showDeleteVehicleDialog =>
           (vl.vehicleToDelete \in VehicleIds
              /\ vl.vehicleToDelete = vl.lastConfirmed)
    /\ handleDeleteVehicle([vl EXCEPT !.vehicleToDelete = None]).calls
           = vl.calls
    /\ \A c \in vl.calls : c.method = "DELETE" <=> c.kind = "delete"

\* A DELETE starts in a step taken with the modal open, which the step
\* closes, and targets the vehicle of the latest confirmDeleteVehicle.
DeleteFromModal ==
    \A c \in NewDeletes :
        /\ vl.showDeleteVehicleDialog /\ ~vl'.showDeleteVehicleDialog
        /\ vl.lastConfirmed \in VehicleIds
        /\ c.vehicleId = vl.lastConfirmed

\* C15: a DELETE request is issued only after confirmDeleteVehicle has
\* selected a vehicle and opened the confirmation modal and the user has
\* pressed the modal's Delete action; it targets the id of the vehicle of
\* the latest confirmDeleteVehicle; with vehicleToDelete null
\* handleDeleteVehicle issues no request.
C15_DeleteOnlyConfirmed == []DeleteModalHasVehicle /\ [][DeleteFromModal]_vars

\* A DELETE for v2, the vehicle confirmed last, awaits its response, the
\* modal closed again by the press.
C15_Witness ==
    /\ ~vl.showDeleteVehicleDialog
    /\ vl.lastConfirmed = "v2"
    /\ \E c \in vl.calls :
           c.method = "DELETE" /\ c.vehicleId = "v2" /\ c.phase = "headers"

====
